---- MODULE Spec2Model ----
\* The trivia API of backend/flaskr/__init__.py: the route handlers, the
\* pagination helper and the quiz selector, over a store of Question and
\* Category rows.
EXTENDS Integers, Sequences, FiniteSets, TLC

VARIABLES
  questions,   \* the Question table: a set of rows with distinct ids
  categories,  \* the Category table: a set of rows [id, type]
  nextId,      \* the id the store hands to the next inserted Question
  request,     \* the request being handled, or the last one handled
  response,    \* the response to `request`, Pending while it is in flight
  pc,          \* "idle", or "while" inside the quiz handler's draw loop
  locals,      \* the quiz handler's locals: questions, total_questions, question
  selection    \* the argument of paginate_questions (PaginateSpec only)

vars == <<questions, categories, nextId, request, response, pc, locals, selection>>

\* ---------------------------------------------------------------- bounds
\* The ids the store hands out.
MaxId == 2
\* The longest previous_questions list.
MaxPrev == 2
\* The longest selection given to paginate_questions.
MaxItems == 21
\* The largest page argument given to paginate_questions.
MaxPage == 3

\* ---------------------------------------------------------------- values
QUESTIONS_PER_PAGE == 10

\* Python's None / SQL NULL, and a value that is present.
None == <<>>
Some(x) == <<x>>

Min(a, b) == IF a < b THEN a ELSE b
Max(a, b) == IF a > b THEN a ELSE b

\* Texts are sequences of one-character strings.
Text1 == <<"A", "b">>
Text2 == <<"b">>
Answer1 == <<"x">>

Ids == 1..MaxId
CategoryIds == {1, 2}
AllCategories == {[id |-> 1, type |-> "Science"], [id |-> 2, type |-> "Art"]}

\* question.format(): the formatted entity of a row.
format(q) ==
  [id |-> q.id, question |-> q.question, answer |-> q.answer,
   category |-> q.category, difficulty |-> q.difficulty]

\* Question(...); question.insert(): the store assigns the id.
Question(id, question, answer, category, difficulty) ==
  [id |-> id, question |-> question, answer |-> answer,
   category |-> category, difficulty |-> difficulty]

insert(qs, q) == qs \cup {q}

\* question.delete()
delete(qs, q) == qs \ {q}

\* ---------------------------------------------------------------- queries
\* Question.query.order_by(Question.id).all() of a set of rows.
RECURSIVE order_by_id(_)
order_by_id(qs) ==
  IF qs = {} THEN <<>>
  ELSE LET m == CHOOSE q \in qs : \A r \in qs : q.id <= r.id
       IN <<m>> \o order_by_id(qs \ {m})

\* Question.query.filter(Question.id == question_id).one_or_none()
one_or_none(qs, question_id) ==
  LET hit == {q \in qs : q.id = question_id}
  IN IF hit = {} THEN None ELSE Some(CHOOSE q \in hit : TRUE)

\* Question.query.filter(Question.category == id).all()
filter_category(qs, id) == {q \in qs : q.category = id}

Lower(c) == CASE c = "A" -> "a" [] c = "B" -> "b" [] c = "C" -> "c" [] OTHER -> c

\* SQL LIKE on lower-cased operands: % is any run of characters, _ any one.
RECURSIVE LikeMatch(_, _)
LikeMatch(p, s) ==
  IF p = <<>> THEN s = <<>>
  ELSE IF Head(p) = "%"
       THEN LikeMatch(Tail(p), s) \/ (s # <<>> /\ LikeMatch(p, Tail(s)))
       ELSE /\ s # <<>>
            /\ (Head(p) = "_" \/ Lower(Head(p)) = Lower(Head(s)))
            /\ LikeMatch(Tail(p), Tail(s))

\* Question.question.ilike('%{}%'.format(search)); NULL matches nothing.
ilike(column, search) ==
  column # None /\ LikeMatch(<<"%">> \o search \o <<"%">>, column[1])

filter_ilike(qs, search) == {q \in qs : ilike(q.question, search)}

\* ---------------------------------------------------------------- responses
Pending == [status |-> 0, body |-> [success |-> FALSE]]

jsonify(body) == [status |-> 200, body |-> body]

ErrorMessage(code) ==
  CASE code = 404 -> "resource not found"
    [] code = 422 -> "unprocessable"
    [] code = 400 -> "bad request"
    [] code = 405 -> "method not allowed"
    [] OTHER -> "internal server error"

\* abort(code), as answered by the error handler registered for the code.
abort(code) ==
  [status |-> code,
   body |-> [success |-> FALSE, error |-> code, message |-> ErrorMessage(code)]]

\* ---------------------------------------------------------------- pagination
\* Python's seq[start:end] for any integers start, end.
Slice(seq, start, end) ==
  LET n == Len(seq)
      lo == IF start < 0 THEN Max(n + start, 0) ELSE Min(start, n)
      hi == IF end < 0 THEN Max(n + end, 0) ELSE Min(end, n)
  IN IF lo >= hi THEN <<>> ELSE [i \in 1..(hi - lo) |-> seq[lo + i]]

paginate_questions_off_by_one(page, sel) ==
  LET start == (page - 1) * QUESTIONS_PER_PAGE
      end == start + QUESTIONS_PER_PAGE - 1
  IN Slice([i \in 1..Len(sel) |-> format(sel[i])], start, end)

paginate_questions(page, sel) ==
  LET start == (page - 1) * QUESTIONS_PER_PAGE
      end == start + QUESTIONS_PER_PAGE
  IN Slice([i \in 1..Len(sel) |-> format(sel[i])], start, end)

\* ---------------------------------------------------------------- handlers
\* categories_dict[category.id] = category.type for every Category row.
categories_dict(cats) ==
  [i \in {c.id : c \in cats} |-> (CHOOSE c \in cats : c.id = i).type]

\* Every order in which the store may return the rows of an unordered query.
RECURSIVE all_orders(_)
all_orders(rows) ==
  IF rows = {} THEN {<<>>}
  ELSE UNION {{<<r>> \o s : s \in all_orders(rows \ {r})} : r \in rows}

\* GET /categories
get_categories(cats) ==
  IF Cardinality(DOMAIN categories_dict(cats)) = 0
  THEN abort(404)
  ELSE jsonify([success |-> TRUE, categories |-> categories_dict(cats)])

\* GET /questions. `l` is list(categories_dict.items()), in the order the store
\* returned the categories; l[-1] raises IndexError on an empty list, which no
\* handler catches (500).
get_questions(qs, cats, page, l) ==
  LET current_questions == paginate_questions(page, order_by_id(qs))
  IN IF Len(l) = 0 THEN abort(500)
     ELSE IF Len(current_questions) = 0 THEN abort(404)
     ELSE jsonify([success |-> TRUE,
                   questions |-> current_questions,
                   total_questions |-> Cardinality(qs),
                   categories |-> categories_dict(cats),
                   current_category |-> <<l[Len(l)].id, l[Len(l)].type>>])

\* delete_question's try block with total_questions counted before the delete.
delete_question_try_stale_total(qs, question_id, page) ==
  LET question == one_or_none(qs, question_id)
  IN IF question = None
     THEN [raised |-> TRUE, questions |-> qs, response |-> abort(404)]
     ELSE LET after == delete(qs, question[1])
              current_questions == paginate_questions(page, order_by_id(after))
          IN [raised |-> FALSE, questions |-> after,
              response |-> jsonify([success |-> TRUE,
                                    deleted |-> question_id,
                                    questions |-> current_questions,
                                    total_questions |-> Cardinality(qs)])]

\* The body of delete_question's try block: what it returns or raises.
delete_question_try(qs, question_id, page) ==
  LET question == one_or_none(qs, question_id)
  IN IF question = None
     THEN [raised |-> TRUE, questions |-> qs, response |-> abort(404)]
     ELSE LET after == delete(qs, question[1])
              current_questions == paginate_questions(page, order_by_id(after))
          IN [raised |-> FALSE, questions |-> after,
              response |-> jsonify([success |-> TRUE,
                                    deleted |-> question_id,
                                    questions |-> current_questions,
                                    total_questions |-> Cardinality(after)])]

\* DELETE /questions/<question_id>: the bare except answers every exception
\* raised in the try block, the one abort(404) raises included, with abort(422).
delete_question(qs, question_id, page) ==
  LET r == delete_question_try(qs, question_id, page)
  IN IF r.raised
     THEN [questions |-> r.questions, response |-> abort(422)]
     ELSE [questions |-> r.questions, response |-> r.response]

\* `if search:` is false for None and for the empty string.
truthy(search) == search # None /\ search[1] # <<>>

\* create_question with total_questions counted before the insert.
create_question_stale_total(qs, nid, body, page) ==
  IF truthy(body.searchTerm)
  THEN LET sel == order_by_id(filter_ilike(qs, body.searchTerm[1]))
       IN [questions |-> qs, nextId |-> nid,
           response |->
             IF Len(sel) = 0
             THEN jsonify([success |-> TRUE, questions |-> <<>>,
                           total_questions |-> 0])
             ELSE jsonify([success |-> TRUE,
                           questions |-> paginate_questions(page, sel),
                           total_questions |-> Len(sel)])]
  ELSE LET question == Question(nid, body.question, body.answer,
                                body.category, body.difficulty)
           after == insert(qs, question)
       IN [questions |-> after, nextId |-> nid + 1,
           response |->
             jsonify([success |-> TRUE,
                      created |-> question.id,
                      question_created |-> question.question,
                      questions |-> paginate_questions(page, order_by_id(after)),
                      total_questions |-> Cardinality(qs)])]

\* create_question with a search that finds nothing falling through to the
\* create path.
create_question_search_falls_through(qs, nid, body, page) ==
  LET sel == IF truthy(body.searchTerm)
             THEN order_by_id(filter_ilike(qs, body.searchTerm[1]))
             ELSE <<>>
  IN IF Len(sel) > 0
     THEN [questions |-> qs, nextId |-> nid,
           response |-> jsonify([success |-> TRUE,
                                 questions |-> paginate_questions(page, sel),
                                 total_questions |-> Len(sel)])]
     ELSE LET question == Question(nid, body.question, body.answer,
                                   body.category, body.difficulty)
              after == insert(qs, question)
          IN [questions |-> after, nextId |-> nid + 1,
              response |->
                jsonify([success |-> TRUE,
                         created |-> question.id,
                         question_created |-> question.question,
                         questions |-> paginate_questions(page, order_by_id(after)),
                         total_questions |-> Cardinality(after)])]

\* POST /questions: search when searchTerm is given, create otherwise.
create_question(qs, nid, body, page) ==
  IF truthy(body.searchTerm)
  THEN LET sel == order_by_id(filter_ilike(qs, body.searchTerm[1]))
       IN [questions |-> qs, nextId |-> nid,
           response |->
             IF Len(sel) = 0
             THEN jsonify([success |-> TRUE, questions |-> <<>>,
                           total_questions |-> 0])
             ELSE jsonify([success |-> TRUE,
                           questions |-> paginate_questions(page, sel),
                           total_questions |-> Len(sel)])]
  ELSE LET question == Question(nid, body.question, body.answer,
                                body.category, body.difficulty)
           after == insert(qs, question)
       IN [questions |-> after, nextId |-> nid + 1,
           response |->
             jsonify([success |-> TRUE,
                      created |-> question.id,
                      question_created |-> question.question,
                      questions |-> paginate_questions(page, order_by_id(after)),
                      total_questions |-> Cardinality(after)])]

\* GET /categories/<category_id>/questions. `sel` is the filtered rows in the
\* order the store returned them.
get_questions_by_category(qs, cats, category_id, page, sel) ==
  LET hit == {c \in cats : c.id = category_id}
  IN IF hit = {} THEN abort(400)
     ELSE jsonify([success |-> TRUE,
                   questions |-> paginate_questions(page, sel),
                   total_questions |-> Cardinality(qs),
                   current_category |-> (CHOOSE c \in hit : TRUE).type])

\* ---------------------------------------------------------------- quiz selector
\* quiz_questions with the category filter left out.
quiz_questions_unfiltered(qs, category) == qs

\* The candidate list of POST /quizzes: every row when quiz_category.id is 0,
\* the rows of that category otherwise.
quiz_questions(qs, category) ==
  IF category.id = 0 THEN qs ELSE filter_category(qs, Some(category.id))

\* get_random_question that always returns the row of least id.
get_random_question_first(qs) ==
  {q \in qs : \A r \in qs : q.id <= r.id}

\* get_random_question(): the rows questions[random.randrange(0, len(questions))]
\* may return.
get_random_question(qs) == qs

\* check_if_used with `used` overwritten at every element: the last one decides.
check_if_used_last_only(question, previous) ==
  previous # <<>> /\ previous[Len(previous)] = question.id

\* check_if_used(question)
check_if_used(question, previous) ==
  \E k \in 1..Len(previous) : previous[k] = question.id

\* The exit test with >= for ==.
exhausted_at_least(previous, total_questions) == Len(previous) >= total_questions

\* The exit test inside the loop: len(previous) == total_questions.
exhausted(previous, total_questions) == Len(previous) = total_questions

\* ---------------------------------------------------------------- inputs
PageArgs == 0..2

Body(question, answer, category, difficulty, searchTerm) ==
  [question |-> question, answer |-> answer, category |-> category,
   difficulty |-> difficulty, searchTerm |-> searchTerm]

\* Bodies that take the create path: every field missing, or a full question
\* with searchTerm missing or empty.
CreateBodies ==
  {Body(None, None, None, None, None)} \cup
  {Body(Some(q), Some(Answer1), Some(1), Some(1), s) :
     q \in {Text1, Text2}, s \in {None, Some(<<>>)}}

\* Bodies that take the search path, with and without the question fields.
SearchTerms == {<<"a">>, <<"c">>, <<"_", "B">>}
SearchBodies ==
  {Body(None, None, None, None, Some(t)) : t \in SearchTerms} \cup
  {Body(Some(Text2), Some(Answer1), Some(1), Some(1), Some(t)) : t \in SearchTerms}

Bodies == CreateBodies \cup SearchBodies

PreviousLists == UNION {[1..n -> Ids] : n \in 0..MaxPrev}
PreviousArgs == {None} \cup {Some(s) : s \in PreviousLists}
QuizCategories == {None} \cup {Some([id |-> i]) : i \in {0} \cup CategoryIds}

\* The stores the quiz selector is run on: any rows with distinct ids, each
\* with no category or one of the categories.
QuizRow(i, c) == Question(i, Some(Text1), Some(Answer1), c, Some(1))
QuizStores ==
  UNION {{{QuizRow(i, f[i]) : i \in S} : f \in [S -> {None} \cup {Some(c) : c \in CategoryIds}]} :
           S \in SUBSET Ids}

\* The selections paginate_questions is run on: n rows, ascending or descending.
PageRow(i) == Question(i, Some(Text2), Some(Answer1), Some(1), Some(1))
Selections ==
  UNION {{[i \in 1..n |-> PageRow(i)], [i \in 1..n |-> PageRow(n + 1 - i)]} :
           n \in 0..MaxItems}

NoLocals == [questions |-> {}, total_questions |-> 0, question |-> None]

\* ---------------------------------------------------------------- actions
GetCategories ==
  /\ pc = "idle"
  /\ request' = [op |-> "GET /categories"]
  /\ response' = get_categories(categories)
  /\ UNCHANGED <<questions, categories, nextId, pc, locals, selection>>

GetQuestions ==
  /\ pc = "idle"
  /\ \E page \in PageArgs, l \in all_orders(categories) :
       /\ request' = [op |-> "GET /questions", page |-> page]
       /\ response' = get_questions(questions, categories, page, l)
  /\ UNCHANGED <<questions, categories, nextId, pc, locals, selection>>

DeleteQuestion ==
  /\ pc = "idle"
  /\ \E question_id \in 0..MaxId, page \in PageArgs :
       LET r == delete_question(questions, question_id, page)
       IN /\ request' = [op |-> "DELETE /questions", question_id |-> question_id,
                         page |-> page]
          /\ questions' = r.questions
          /\ response' = r.response
  /\ UNCHANGED <<categories, nextId, pc, locals, selection>>

CreateQuestion ==
  /\ pc = "idle"
  /\ \E body \in Bodies, page \in PageArgs :
       LET r == create_question(questions, nextId, body, page)
       IN /\ r.nextId <= MaxId + 1
          /\ request' = [op |-> "POST /questions", body |-> body, page |-> page]
          /\ questions' = r.questions
          /\ nextId' = r.nextId
          /\ response' = r.response
  /\ UNCHANGED <<categories, pc, locals, selection>>

GetQuestionsByCategory ==
  /\ pc = "idle"
  /\ \E category_id \in 1..3, page \in PageArgs :
       \E sel \in all_orders(filter_category(questions, Some(category_id))) :
         /\ request' = [op |-> "GET /categories/questions",
                        category_id |-> category_id, page |-> page]
         /\ response' = get_questions_by_category(questions, categories,
                                                  category_id, page, sel)
  /\ UNCHANGED <<questions, categories, nextId, pc, locals, selection>>

\* POST /quizzes up to the first draw. A missing quiz_category makes
\* category['id'] raise, an empty candidate list makes randrange raise: the bare
\* except answers both with abort(400).
QuizBegin ==
  /\ pc = "idle"
  /\ request.op = "none"
  /\ \E previous \in PreviousArgs, category \in QuizCategories :
       /\ request' = [op |-> "POST /quizzes", previous |-> previous,
                      category |-> category]
       /\ IF category = None
          THEN /\ response' = abort(400)
               /\ UNCHANGED <<pc, locals>>
          ELSE LET qs == quiz_questions(questions, category[1])
               IN IF get_random_question(qs) = {}
                  THEN /\ response' = abort(400)
                       /\ UNCHANGED <<pc, locals>>
                  ELSE \E q \in get_random_question(qs) :
                         /\ locals' = [questions |-> qs,
                                       total_questions |-> Cardinality(qs),
                                       question |-> Some(q)]
                         /\ pc' = "while"
                         /\ response' = Pending
  /\ UNCHANGED <<questions, categories, nextId, selection>>

\* The loop test fails, or raises: iterating a missing previous_questions raises
\* (400); an unused question is returned.
QuizRespond ==
  /\ pc = "while"
  /\ \/ /\ request.previous = None
        /\ response' = abort(400)
     \/ /\ request.previous # None
        /\ ~check_if_used(locals.question[1], request.previous[1])
        /\ response' = jsonify([success |-> TRUE,
                                question |-> format(locals.question[1])])
  /\ pc' = "idle"
  /\ locals' = NoLocals
  /\ UNCHANGED <<questions, categories, nextId, request, selection>>

\* One turn of the loop body that draws the row with id i: the draw, then the
\* exit test.
QuizRedraw(i) ==
  /\ pc = "while"
  /\ request.previous # None
  /\ check_if_used(locals.question[1], request.previous[1])
  /\ \E q \in get_random_question(locals.questions) :
       /\ q.id = i
       /\ IF exhausted(request.previous[1], locals.total_questions)
          THEN /\ response' = jsonify([success |-> TRUE])
               /\ pc' = "idle"
               /\ locals' = NoLocals
          ELSE /\ locals' = [locals EXCEPT !.question = Some(q)]
               /\ UNCHANGED <<pc, response>>
  /\ UNCHANGED <<questions, categories, nextId, request, selection>>

QuizWhile == \E i \in Ids : QuizRedraw(i)

\* paginate_questions applied to the drawn page and selection.
Paginate ==
  /\ request.op = "paginate"
  /\ response = Pending
  /\ response' = [status |-> 200,
                  body |-> [questions |-> paginate_questions(request.page, selection)]]
  /\ UNCHANGED <<questions, categories, nextId, request, pc, locals, selection>>

\* ---------------------------------------------------------------- specifications
\* The store handlers, from an empty Question table.
Init ==
  /\ questions = {}
  /\ categories \in SUBSET AllCategories
  /\ nextId = 1
  /\ request = [op |-> "none"]
  /\ response = Pending
  /\ pc = "idle"
  /\ locals = NoLocals
  /\ selection = <<>>

Next ==
  \/ GetCategories
  \/ GetQuestions
  \/ DeleteQuestion
  \/ CreateQuestion
  \/ GetQuestionsByCategory

Spec == Init /\ [][Next]_vars

\* The quiz selector. The handler reads the store once, writes nothing and keeps
\* nothing between requests, so each behaviour is one request on a drawn store.
QuizInit ==
  /\ questions \in QuizStores
  /\ categories = AllCategories
  /\ nextId = MaxId + 1
  /\ request = [op |-> "none"]
  /\ response = Pending
  /\ pc = "idle"
  /\ locals = NoLocals
  /\ selection = <<>>

QuizNext ==
  \/ QuizBegin
  \/ QuizRespond
  \/ QuizWhile

QuizSpec == QuizInit /\ [][QuizNext]_vars

\* The quiz selector under a fair draw: the loop keeps turning, and a row that
\* can be drawn at every turn is drawn at some turn.
FairQuizSpec ==
  /\ QuizSpec
  /\ WF_vars(QuizRespond)
  /\ \A i \in Ids : WF_vars(QuizRedraw(i))

\* paginate_questions on a drawn page and selection.
PaginateInit ==
  /\ questions = {}
  /\ categories = AllCategories
  /\ nextId = 1
  /\ request \in {[op |-> "paginate", page |-> p] : p \in (0 - 1)..MaxPage}
  /\ response = Pending
  /\ pc = "idle"
  /\ locals = NoLocals
  /\ selection \in Selections

PaginateNext == Paginate

PaginateSpec == PaginateInit /\ [][PaginateNext]_vars

\* ---------------------------------------------------------------- quiz properties
IsQuiz == request.op = "POST /quizzes"

\* The request carries a quiz_category and a previous_questions list.
QuizWellFormed == IsQuiz /\ request.category # None /\ request.previous # None

\* The candidate set of the request, read off the store.
CandidateSet ==
  IF request.category[1].id = 0
  THEN questions
  ELSE {q \in questions : q.category = Some(request.category[1].id)}

CandidateIds == {q.id : q \in CandidateSet}
PreviousIds == {request.previous[1][k] : k \in 1..Len(request.previous[1])}

QuizAnswered == IsQuiz /\ pc = "idle" /\ response # Pending
HasQuestion == response.status = 200 /\ "question" \in DOMAIN response.body
ExhaustionResponse == [status |-> 200, body |-> [success |-> TRUE]]

\* C1: whenever the response to POST /quizzes carries a question, its id is not
\* in previous_questions and it is the formatted row of a candidate (any row
\* when quiz_category.id is 0, a row of that category otherwise).
C1_NeverRepeats ==
  (QuizWellFormed /\ QuizAnswered /\ HasQuestion) =>
    /\ response.body.question.id \notin PreviousIds
    /\ \E q \in CandidateSet : response.body.question = format(q)

\* A question was returned although some candidate was already used.
C1_Witness ==
  /\ QuizWellFormed /\ QuizAnswered /\ HasQuestion
  /\ request.category[1].id # 0
  /\ CandidateIds \cap PreviousIds # {}

\* C2 as stated: whenever len(previous_questions) equals the number of
\* candidates, the response is the exhaustion response {success: true}.
C2_ExhaustedOnEqualLength ==
  (QuizAnswered /\ request.category # None /\ request.previous # None
     /\ Len(request.previous[1]) = Cardinality(CandidateSet)) =>
    response = ExhaustionResponse

\* C2 amended: for a non-empty candidate set, whenever len(previous_questions)
\* equals the number of candidates and previous_questions holds every
\* candidate's id, the response is the exhaustion response {success: true}.
C2_ExhaustedWhenAllUsed ==
  (QuizAnswered /\ request.category # None /\ request.previous # None
     /\ CandidateSet # {}
     /\ Len(request.previous[1]) = Cardinality(CandidateSet)
     /\ CandidateIds \subseteq PreviousIds) =>
    response = ExhaustionResponse

\* The exhaustion response to a request that lists both candidates of a category.
C2_Witness ==
  /\ QuizWellFormed /\ QuizAnswered
  /\ Cardinality(CandidateSet) = 2
  /\ Len(request.previous[1]) = 2
  /\ CandidateIds \subseteq PreviousIds
  /\ response = ExhaustionResponse

\* Every candidate's id occurs in previous_questions, whose length differs from
\* the number of candidates.
AllUsedUnequal ==
  /\ QuizWellFormed
  /\ CandidateSet # {}
  /\ CandidateIds \subseteq PreviousIds
  /\ Len(request.previous[1]) # Cardinality(CandidateSet)

\* C9: for a non-empty candidate set whose ids all occur in previous_questions,
\* with len(previous_questions) different from the number of candidates, the
\* request stays in the draw loop and no response is ever produced.
C9_NeverResponds ==
  AllUsedUnequal => (pc = "while" /\ response = Pending)

\* The loop is turning on a request whose previous_questions repeats an id.
C9_Witness ==
  /\ AllUsedUnequal
  /\ pc = "while"
  /\ Cardinality(PreviousIds) < Len(request.previous[1])

\* previous_questions is duplicate-free and holds only ids of candidates.
CleanPrevious ==
  /\ QuizWellFormed
  /\ CandidateSet # {}
  /\ Cardinality(PreviousIds) = Len(request.previous[1])
  /\ PreviousIds \subseteq CandidateIds

\* C10: under a fair draw, a request over a non-empty candidate set with a
\* duplicate-free previous_questions of candidate ids is eventually answered:
\* with an unused candidate when previous_questions misses some candidate,
\* with the exhaustion response when it covers them all.
C10_EventuallyResponds ==
  /\ [](CleanPrevious /\ pc = "idle" =>
          IF PreviousIds = CandidateIds
          THEN response = ExhaustionResponse
          ELSE /\ HasQuestion
               /\ response.body.question.id \in CandidateIds \ PreviousIds)
  /\ (CleanPrevious /\ pc = "while") ~> (CleanPrevious /\ pc = "idle")

\* An unused candidate was returned to a request that had used another.
C10_Witness ==
  /\ CleanPrevious /\ pc = "idle"
  /\ PreviousIds # {}
  /\ HasQuestion
  /\ response.body.question.id \in CandidateIds \ PreviousIds

\* ---------------------------------------------------------------- store properties
StoredIds == {q.id : q \in questions}
NotFound ==
  [status |-> 404,
   body |-> [success |-> FALSE, error |-> 404, message |-> "resource not found"]]

\* The step handles DELETE /questions/<id>; StoredIds is read before the step.
DeleteStep == pc = "idle" /\ request'.op = "DELETE /questions"

\* C3: DELETE /questions/<id> of an id that is not stored, a repeat delete
\* included, responds with NotFound (404) and leaves the stored questions
\* unchanged.
C3_DeleteMissingIsNotFound ==
  [][(DeleteStep /\ request'.question_id \notin StoredIds) =>
       (response' = NotFound /\ questions' = questions)]_vars

\* C4: DELETE /questions/<id> of a stored id removes exactly the row with that
\* id, leaves every other row and every category as it was, and reports
\* deleted = id and total_questions = the previous total minus 1.
C4_DeleteRemovesOneRow ==
  [][(DeleteStep /\ request'.question_id \in StoredIds) =>
       /\ questions' = {q \in questions : q.id # request'.question_id}
       /\ Cardinality(questions') = Cardinality(questions) - 1
       /\ categories' = categories
       /\ response'.status = 200
       /\ response'.body.success
       /\ response'.body.deleted = request'.question_id
       /\ response'.body.total_questions = Cardinality(questions) - 1]_vars

\* A delete succeeded and left another row in the store.
C4_Witness ==
  /\ request.op = "DELETE /questions"
  /\ response.status = 200
  /\ response.body.deleted = 1
  /\ questions # {}

\* The step handles POST /questions on the create path.
CreateStep ==
  /\ pc = "idle"
  /\ request'.op = "POST /questions"
  /\ request'.body.searchTerm \in {None, Some(<<>>)}

\* C5: after a successful POST /questions on the create path, total_questions
\* is 1 more than the number of questions stored before, the created id was
\* the id of no question stored before, and a question with that id is stored.
C5_CreateAddsOneRow ==
  [][(CreateStep /\ response'.status = 200) =>
       /\ response'.body.total_questions = Cardinality(questions) + 1
       /\ Cardinality(questions') = Cardinality(questions) + 1
       /\ response'.body.created \notin StoredIds
       /\ \E q \in questions' : q.id = response'.body.created
       /\ \E k \in 1..Len(order_by_id(questions')) :
            order_by_id(questions')[k].id = response'.body.created]_vars

\* A question was created after an earlier one had been deleted.
C5_Witness ==
  /\ request.op = "POST /questions"
  /\ response.status = 200
  /\ "created" \in DOMAIN response.body
  /\ response.body.created = 2
  /\ StoredIds = {2}

\* C6: GET /questions responds NotFound (404) whenever the paginated slice is
\* empty, in every state of the store, one with no categories included, and
\* with success only when the slice is not empty.
C6_EmptyPageIsNotFound ==
  request.op = "GET /questions" =>
    LET slice == paginate_questions(request.page, order_by_id(questions))
    IN /\ slice = <<>> => response = NotFound
       /\ response.status = 200 => slice # <<>>

\* The step handles POST /questions with a non-empty searchTerm.
SearchStep ==
  /\ pc = "idle"
  /\ request'.op = "POST /questions"
  /\ request'.body.searchTerm \notin {None, Some(<<>>)}

\* C8: POST /questions with a non-empty searchTerm that the search matches
\* against no stored question text responds {success: true, questions: [],
\* total_questions: 0} for every page, and stores nothing.
C8_NoMatchIsEmptySuccess ==
  [][(SearchStep /\ \A q \in questions : ~ilike(q.question, request'.body.searchTerm[1])) =>
       /\ response' = [status |-> 200,
                       body |-> [success |-> TRUE, questions |-> <<>>,
                                 total_questions |-> 0]]
       /\ questions' = questions
       /\ nextId' = nextId]_vars

\* A search on page 2 with the question fields given found nothing in a store
\* that holds questions.
C8_Witness ==
  /\ request.op = "POST /questions"
  /\ request.body.searchTerm \notin {None, Some(<<>>)}
  /\ request.body.question # None
  /\ request.page = 2
  /\ questions # {}
  /\ \A q \in questions : q.question # None
  /\ \A q \in questions : ~ilike(q.question, request.body.searchTerm[1])
  /\ response.status = 200
  /\ response.body.total_questions = 0

\* ---------------------------------------------------------------- pagination properties
\* C7: for every page p >= 1, paginate_questions returns the formatted items
\* (p-1)*10+1 .. p*10 of the selection in their order: at most 10 of them, and
\* none when (p-1)*10 is at or past the end.
C7_PageIsSlice ==
  (request.op = "paginate" /\ response # Pending /\ request.page >= 1) =>
    LET p == request.page
        got == response.body.questions
        first == (p - 1) * 10
        n == Len(selection)
    IN /\ Len(got) <= 10
       /\ first >= n => got = <<>>
       /\ first < n => Len(got) = Min(n, p * 10) - first
       /\ \A i \in 1..Len(got) : got[i] = format(selection[first + i])

\* Page 2 of 15 descending items: the last 5.
C7_Witness ==
  /\ request.op = "paginate" /\ response # Pending
  /\ request.page = 2
  /\ Len(selection) = 15
  /\ selection[1].id = 15
  /\ Len(response.body.questions) = 5
  /\ response.body.questions[5].id = 1

====
